---- MODULE Spec2Model ----
(***************************************************************************)
(* Paper-trading decision engine of brain-hijack-v5: the runtime           *)
(* configuration controller (ConfigService), the two revisions of the      *)
(* sniper (PaperService in paper.service.ts and in autotrader.service.ts)  *)
(* and the AutoTrader bot, over the paper_trades table.                    *)
(*                                                                         *)
(* Units: a hijack force is held in thousandths (0.08 is 80), a percentage *)
(* in tenths of a percent (3.0 % is 30), a time in minutes.  A quotient    *)
(* a / b of the source is held as the exact fraction [num |-> a, den |-> b]*)
(* and fractions are compared by cross-multiplication.                     *)
(***************************************************************************)
EXTENDS Integers, Sequences, FiniteSets, TLC

\* ------------------------------------------------------------------ bounds
MaxTrades == 2
MaxAssets == 1
MaxEvals == 2
MaxScans == 1
MaxClock == 30
ClockStep == 15
MaxFeed == 4

\* BTC has an options market (generateSignal's source 4), SOL has none.
Tickers == {"BTC", "SOL"}
\* 100 -> 103 is +3.0 % (take-profit, boundary), 103 -> 100 is -2.9 % (stop-loss).
Prices == {100, 103}
\* 0 is below both exit thresholds, 80 is the fusion revision's entry threshold
\* itself (not above it), 100 is above every threshold.
Forces == {0, 80, 100}
NarrativeScores == {-1, 0}

\* ------------------------------------------------------- ConfigService
ConfigFields ==
    {"killSwitch", "paperTradingEnabled", "liveTradingEnabled", "entryThreshold",
     "exitThreshold", "stopLossPercent", "takeProfitPercent", "trailingStopEnabled",
     "trailingStopPercent", "trailingActivation", "requireNarrative",
     "maxOpenPositions", "tradeSizeUsd"}

DEFAULT_CONFIG ==
    [killSwitch |-> FALSE, paperTradingEnabled |-> TRUE, liveTradingEnabled |-> FALSE,
     entryThreshold |-> 80, exitThreshold |-> 10, stopLossPercent |-> -20,
     takeProfitPercent |-> 30, trailingStopEnabled |-> TRUE, trailingStopPercent |-> 15,
     trailingActivation |-> 10, requireNarrative |-> TRUE, maxOpenPositions |-> 5,
     tradeSizeUsd |-> 1000]

\* The request bodies POST /config is driven with: each is a partial TradingConfig.
\* The controller hands the body to updateConfig unfiltered, so a body may carry
\* the kill-switch and trading flags as well as the thresholds.
FlagUpdates ==
    {[killSwitch |-> TRUE], [killSwitch |-> FALSE],
     [paperTradingEnabled |-> TRUE], [paperTradingEnabled |-> FALSE],
     [liveTradingEnabled |-> TRUE], [liveTradingEnabled |-> FALSE]}

ThresholdUpdates ==
    {[maxOpenPositions |-> 1], [maxOpenPositions |-> -1], [tradeSizeUsd |-> 500],
     [entryThreshold |-> 50, exitThreshold |-> 20],
     [stopLossPercent |-> -10, takeProfitPercent |-> 20],
     [trailingStopEnabled |-> FALSE], [requireNarrative |-> FALSE],
     [trailingStopPercent |-> 5, trailingActivation |-> 20]}

ConfigUpdates == FlagUpdates \cup ThresholdUpdates

\* The updates the trading specifications draw from.
TradingUpdates ==
    {[entryThreshold |-> 100, maxOpenPositions |-> 1, tradeSizeUsd |-> 500]}

VARIABLES
    currentConfig,   \* config.service.ts: let currentConfig
    defaultConfig,   \* config.service.ts: the fields of the object const DEFAULT_CONFIG
    aliased,         \* TRUE when currentConfig refers to the DEFAULT_CONFIG object itself
    configLog,       \* the ConfigService operations called so far, latest last (two kept)
    botConfig,       \* autotrader.service.ts: let botConfig
    botStats,        \* autotrader.service.ts: let botStats
    tradeCooldowns,  \* autotrader.service.ts: tradeCooldowns, 0 = no entry
    scanInterval,    \* autotrader.service.ts: scanInterval, TRUE = the timer is set
    now,             \* Date.now() / NOW(), in minutes
    paper_trades,    \* the rows of table paper_trades, by id
    highWaterMark,   \* observer: per ticker, the highest price the exit check has
                     \* seen for the OPEN position (0: none); PaperService keeps none
    evals,           \* the evaluateMarketState calls in flight
    scans,           \* the AutoTraderService.scan calls in flight
    analysis,        \* what the last analyzeAsset call met and returned
    feed,            \* the observations the tick source has yet to send
    sentiment_metrics, \* the rows of table sentiment_metrics inside the 3-minute window
    lastLeaderboard, \* what the last getMarketLeaderboard call returned
    dbUp,            \* the persistence layer answers: FALSE, every query() rejects
    statsReply       \* what the last getPaperStats request was answered

vars ==
    <<currentConfig, defaultConfig, aliased, configLog, botConfig, botStats, tradeCooldowns, scanInterval, now,
      paper_trades, highWaterMark, evals, scans, analysis, feed, sentiment_metrics, lastLeaderboard,
      dbUp, statsReply>>

configVars == <<currentConfig, defaultConfig, aliased, configLog>>
botVars == <<botConfig, botStats, tradeCooldowns, scanInterval>>
tradeVars == <<paper_trades, highWaterMark>>
procVars == <<evals, scans>>
readVars == <<analysis, feed, sentiment_metrics, lastLeaderboard>>
faultVars == <<dbUp, statsReply>>

\* { ...a, ...b }: b's fields over a's.
Merge(a, b) ==
    [f \in DOMAIN a \cup DOMAIN b |-> IF f \in DOMAIN b THEN b[f] ELSE a[f]]

\* An assignment to fields of the object currentConfig refers to: it reaches the
\* DEFAULT_CONFIG object too when the two are one object.
WriteThrough(writes) ==
    /\ currentConfig' = Merge(currentConfig, writes)
    /\ defaultConfig' = IF aliased THEN Merge(defaultConfig, writes) ELSE defaultConfig
    /\ UNCHANGED aliased

\* currentConfig = { ...DEFAULT_CONFIG, ...updates }: the update over the defaults.
updateConfigOverDefaults(updates) ==
    /\ currentConfig' = Merge(defaultConfig, updates)
    /\ aliased' = FALSE
    /\ UNCHANGED defaultConfig

\* currentConfig = { ...currentConfig, ...updates }: a new object.
updateConfig(updates) ==
    /\ currentConfig' = Merge(currentConfig, updates)
    /\ aliased' = FALSE
    /\ UNCHANGED defaultConfig

\* activateKillSwitch without its third assignment: live trading stays as it was.
activateKillSwitchKeepsLive ==
    WriteThrough([killSwitch |-> TRUE, paperTradingEnabled |-> FALSE])

activateKillSwitch ==
    WriteThrough([killSwitch |-> TRUE, paperTradingEnabled |-> FALSE,
                  liveTradingEnabled |-> FALSE])

deactivateKillSwitch ==
    WriteThrough([killSwitch |-> FALSE, paperTradingEnabled |-> TRUE])

\* resetToDefaults without the spread: currentConfig = DEFAULT_CONFIG, one object
\* under two names.
resetToDefaultsShared ==
    /\ currentConfig' = defaultConfig
    /\ aliased' = TRUE
    /\ UNCHANGED defaultConfig

\* currentConfig = { ...DEFAULT_CONFIG }: a copy of the object's fields.
resetToDefaults ==
    /\ currentConfig' = defaultConfig
    /\ aliased' = FALSE
    /\ UNCHANGED defaultConfig

isPaperTradingAllowed ==
    ~currentConfig.killSwitch /\ currentConfig.paperTradingEnabled

getMaxOpenPositions == currentConfig.maxOpenPositions

getEntryThreshold == currentConfig.entryThreshold

getTradeSizeUsd == currentConfig.tradeSizeUsd

\* The last two ConfigService operations with the config each found, latest
\* last: a history kept for the properties about sequences of operations.
NoOp == [op |-> "none", updates |-> <<>>, before |-> DEFAULT_CONFIG]

Logged(op, updates, logged) ==
    IF logged
    THEN configLog' = <<configLog[2],
                        [op |-> op, updates |-> updates, before |-> currentConfig]>>
    ELSE UNCHANGED configLog

\* ---------------------------------------------------------- paper_trades
NullFrac == [num |-> 0, den |-> 0]

\* a / b, kept exact.
Frac(a, b) == [num |-> a, den |-> b]

FracEq(x, y) == x.num * y.den = y.num * x.den

\* INSERT INTO paper_trades (ticker, entry_price, quantity, ..., 'OPEN'): id is
\* SERIAL, opened_at defaults to NOW(), the exit columns are NULL (0 / NullFrac).
NewRow(ticker, price, quantity) ==
    [id |-> Len(paper_trades) + 1, ticker |-> ticker, entry_price |-> price,
     quantity |-> quantity, status |-> "OPEN", exit_price |-> 0,
     profit |-> NullFrac, opened_at |-> now, closed_at |-> 0]

\* The INSERT resolves: the persistence layer answers and quantity DECIMAL(20, 8)
\* holds the value. size / 0 is Infinity in the code (den = 0), which the column
\* rejects ("cannot hold an infinite value"), so the query rejects with an error.
AcceptedUnbounded(quantity) == dbUp

Accepted(quantity) == dbUp /\ quantity.den # 0

Insert(ticker, price, quantity) ==
    /\ Len(paper_trades) < MaxTrades
    /\ paper_trades' = Append(paper_trades, NewRow(ticker, price, quantity))

\* SELECT ... FROM paper_trades WHERE ticker = $1 AND status = 'OPEN'
OpenRows(ticker) ==
    {i \in DOMAIN paper_trades :
        paper_trades[i].ticker = ticker /\ paper_trades[i].status = "OPEN"}

\* SELECT COUNT(*) FROM paper_trades WHERE status = 'OPEN'
OpenCount == Cardinality({i \in DOMAIN paper_trades : paper_trades[i].status = "OPEN"})

\* UPDATE paper_trades SET status = 'CLOSED', exit_price = $1, closed_at = NOW(),
\* profit = $2 WHERE id = $3: the statement names the row by id alone.
UpdateClosed(id, exitPrice, profitUsd) ==
    paper_trades' = [paper_trades EXCEPT ![id] =
        [@ EXCEPT !.status = "CLOSED", !.exit_price = exitPrice,
                  !.closed_at = now, !.profit = profitUsd]]

\* PaperService.getStats: the counts of its one SELECT over paper_trades.
\* winRate and totalPnL are formatted from the same row and left out.
getStats ==
    LET closed == {i \in DOMAIN paper_trades : paper_trades[i].status = "CLOSED"}
        wins == {i \in closed : paper_trades[i].profit.num > 0}
    IN [totalTrades |-> Cardinality(closed), wins |-> Cardinality(wins),
        losses |-> Cardinality(closed \ wins), openPositions |-> OpenCount]

\* getPaperStats: the stats with status 200; getStats catches nothing, so when
\* its query rejects the handler's catch replies 500 with an error message.
getPaperStats ==
    /\ statsReply' = IF dbUp THEN [status |-> 200, data |-> getStats]
                     ELSE [status |-> 500, data |-> <<>>]
    /\ UNCHANGED <<readVars, configVars, botVars, now, dbUp, tradeVars, procVars>>

\* ---------------------------------------------------------- PaperService
\* The repository holds two revisions of PaperService: "paper" is
\* modules/execution/paper.service.ts (the module SentimentService imports) and
\* "fusion" is the one defined after AutoTraderService in autotrader.service.ts
\* (narrative fusion, take-profit).
Revisions == {"paper", "fusion"}

TRADE_SIZE_USD(rev) == 1000

ENTRY_THRESHOLD(rev) == IF rev = "paper" THEN 10 ELSE 80

\* An exit threshold above both entry thresholds.
EXIT_THRESHOLD_ABOVE_ENTRY(rev) == 90

EXIT_THRESHOLD(rev) == IF rev = "paper" THEN 5 ELSE 10

STOP_LOSS_PERCENT(rev) == -20

TAKE_PROFIT_PERCENT == 30

REQUIRE_NARRATIVE == TRUE

\* pnlPercent = ((currentPrice - entryPrice) / entryPrice) * 100 against a
\* percentage held in tenths, for entryPrice > 0.
PnlAtLeast(currentPrice, entryPrice, percent) ==
    (currentPrice - entryPrice) * 1000 >= percent * entryPrice

PnlAtMost(currentPrice, entryPrice, percent) ==
    (currentPrice - entryPrice) * 1000 <= percent * entryPrice

\* The if / else-if chain of managePositions: the reason it closes with, "" for none.
ExitReason(rev, entryPrice, currentPrice, currentForce) ==
    IF rev = "paper"
    THEN IF currentForce < EXIT_THRESHOLD(rev) THEN "MOMENTUM_DIED"
         ELSE IF PnlAtMost(currentPrice, entryPrice, STOP_LOSS_PERCENT(rev))
              THEN "STOP_LOSS"
              ELSE ""
    ELSE IF PnlAtLeast(currentPrice, entryPrice, TAKE_PROFIT_PERCENT) THEN "TAKE_PROFIT"
         ELSE IF PnlAtMost(currentPrice, entryPrice, STOP_LOSS_PERCENT(rev))
              THEN "STOP_LOSS"
              ELSE IF currentForce < EXIT_THRESHOLD(rev) THEN "MOMENTUM_DIED"
                   ELSE ""

\* const profitUsd = (currentPrice - entryPrice) * quantity
ProfitUsd(entryPrice, currentPrice, quantity) ==
    Frac((currentPrice - entryPrice) * quantity.num, quantity.den)

\* The entry test on the force alone.
ShouldEnterOnForce(rev, asset, narrativeScore) ==
    asset.hijackForce > ENTRY_THRESHOLD(rev)

\* The entry test of evaluateMarketState's loop body.
ShouldEnter(rev, asset, narrativeScore) ==
    IF rev = "paper"
    THEN asset.hijackForce > ENTRY_THRESHOLD(rev)
    ELSE /\ asset.hijackForce > ENTRY_THRESHOLD(rev)
         /\ (~REQUIRE_NARRATIVE \/ narrativeScore >= 0)

\* What getMarketLeaderboard hands over: one asset per ticker, by force descending.
Assets == [ticker : Tickers, hijackForce : Forces, latestPrice : Prices]

IsLeaderboard(lb) ==
    /\ \A i, j \in DOMAIN lb : i < j =>
            /\ lb[i].ticker # lb[j].ticker
            /\ lb[i].hijackForce >= lb[j].hijackForce

Leaderboards ==
    {lb \in UNION {[1..n -> Assets] : n \in 1..MaxAssets} : IsLeaderboard(lb)}

NoRow ==
    [id |-> 0, ticker |-> "", entry_price |-> 0, quantity |-> NullFrac,
     status |-> "", exit_price |-> 0, profit |-> NullFrac, opened_at |-> 0,
     closed_at |-> 0]

IdleEval ==
    [pc |-> "idle", rev |-> "paper", lb |-> <<>>, narrativeScore |-> 0,
     existing |-> FALSE, created |-> 0, trade |-> NoRow, reason |-> ""]

\* res.rows[0] of the SELECT: the query has no ORDER BY, so with several OPEN
\* rows any of them may come first.
SelectOpen(ticker) ==
    IF OpenRows(ticker) = {} THEN {NoRow} ELSE {paper_trades[i] : i \in OpenRows(ticker)}

\* managePositions up to its awaited SELECT.
BeginManage(ev) ==
    IF dbUp
    THEN {[ev EXCEPT !.pc = "manage", !.trade = t] : t \in SelectOpen(Head(ev.lb).ticker)}
    ELSE {[ev EXCEPT !.pc = "queryFailed"]}

\* NewsService.getNarrative(ticker).score, read by the fusion revision only.
NarrativeReadings(rev) == IF rev = "paper" THEN {0} ELSE NarrativeScores

\* One turn of the for loop up to its first awaited query: the entry test, then
\* openPosition's SELECT or managePositions' SELECT. An empty rest ends the call.
\* A query that rejects throws into the catch of this turn of the loop.
BeginAsset(rev, lb) ==
    IF lb = <<>> THEN {IdleEval}
    ELSE LET asset == Head(lb)
             ev == [IdleEval EXCEPT !.rev = rev, !.lb = lb]
         IN UNION {IF ShouldEnter(rev, asset, ns)
                   THEN {[ev EXCEPT !.pc = IF dbUp THEN "open" ELSE "queryFailed",
                                    !.narrativeScore = ns,
                                    !.existing = dbUp /\ (OpenRows(asset.ticker) # {})]}
                   ELSE BeginManage([ev EXCEPT !.narrativeScore = ns]) :
                   ns \in NarrativeReadings(rev)}

AllIdle ==
    /\ \A e \in DOMAIN evals : evals[e].pc = "idle"
    /\ \A s \in DOMAIN scans : scans[s].pc = "idle"

\* evaluateMarketState(leaderboard), called fire-and-forget by getMarketLeaderboard.
\* serial: the call starts only when no other handler is in flight.
evaluateMarketState(e, rev, leaderboard, serial) ==
    /\ evals[e].pc = "idle"
    /\ serial => AllIdle
    /\ \E st \in BeginAsset(rev, leaderboard) : evals' = [evals EXCEPT ![e] = st]
    /\ UNCHANGED <<readVars, configVars, botVars, now, faultVars, tradeVars, scans>>

\* openPosition without the return on an existing OPEN row: it always INSERTs.
openPositionUnchecked(e) ==
    LET ev == evals[e]
        asset == Head(ev.lb)
    IN /\ ev.pc = "open"
       /\ IF Accepted(Frac(TRADE_SIZE_USD(ev.rev), asset.latestPrice))
          THEN /\ Insert(asset.ticker, asset.latestPrice,
                         Frac(TRADE_SIZE_USD(ev.rev), asset.latestPrice))
               /\ evals' = [evals EXCEPT ![e].pc = "opened",
                                         ![e].created = Len(paper_trades) + 1]
          ELSE /\ evals' = [evals EXCEPT ![e].pc = "insertFailed"]
               /\ UNCHANGED paper_trades
       /\ UNCHANGED <<readVars, configVars, botVars, now, faultVars, highWaterMark, scans>>

\* openPosition after its SELECT: return on an existing OPEN row, else INSERT.
\* An INSERT that rejects throws past the log line, the archive event and the
\* alert, into the catch of evaluateMarketState's loop.
openPosition(e) ==
    LET ev == evals[e]
        asset == Head(ev.lb)
    IN /\ ev.pc = "open"
       /\ IF ev.existing
          THEN /\ \E st \in BeginManage(ev) : evals' = [evals EXCEPT ![e] = st]
               /\ UNCHANGED paper_trades
          ELSE IF Accepted(Frac(TRADE_SIZE_USD(ev.rev), asset.latestPrice))
          THEN /\ Insert(asset.ticker, asset.latestPrice,
                         Frac(TRADE_SIZE_USD(ev.rev), asset.latestPrice))
               /\ evals' = [evals EXCEPT ![e].pc = "opened",
                                         ![e].created = Len(paper_trades) + 1]
          ELSE /\ evals' = [evals EXCEPT ![e].pc = "insertFailed"]
               /\ UNCHANGED paper_trades
       /\ UNCHANGED <<readVars, configVars, botVars, now, faultVars, highWaterMark, scans>>

\* openPosition after its INSERT (log, archive, alert), then managePositions' SELECT.
openPositionDone(e) ==
    LET ev == evals[e]
    IN /\ ev.pc = "opened"
       /\ \E st \in BeginManage(ev) : evals' = [evals EXCEPT ![e] = st]
       /\ UNCHANGED <<readVars, configVars, botVars, now, faultVars, tradeVars, scans>>

\* The highest price the exit check has evaluated for the position, this price
\* included: it starts at the entry price (backtest.service.ts keeps the same
\* mark on its positions, and never exits on it).
PeakSeen(trade, currentPrice) ==
    LET mark == IF highWaterMark[trade.ticker] = 0 THEN trade.entry_price
                ELSE highWaterMark[trade.ticker]
    IN IF currentPrice > mark THEN currentPrice ELSE mark

\* managePositions after its SELECT: the exit rules on the row it read, the UPDATE.
managePositions(e) ==
    LET ev == evals[e]
        asset == Head(ev.lb)
        trade == ev.trade
        reason == ExitReason(ev.rev, trade.entry_price, asset.latestPrice,
                             asset.hijackForce)
    IN /\ ev.pc = "manage"
       /\ IF trade = NoRow \/ reason = ""
          THEN /\ \E st \in BeginAsset(ev.rev, Tail(ev.lb)) :
                     evals' = [evals EXCEPT ![e] = st]
               /\ UNCHANGED paper_trades
          ELSE IF dbUp
          THEN /\ UpdateClosed(trade.id, asset.latestPrice,
                               ProfitUsd(trade.entry_price, asset.latestPrice,
                                         trade.quantity))
               /\ evals' = [evals EXCEPT ![e].pc = "closed", ![e].reason = reason]
          ELSE /\ evals' = [evals EXCEPT ![e].pc = "queryFailed"]
               /\ UNCHANGED paper_trades
       /\ highWaterMark' =
            IF trade = NoRow \/ (reason # "" /\ ~dbUp) THEN highWaterMark
            ELSE [highWaterMark EXCEPT ![asset.ticker] =
                    IF reason = "" THEN PeakSeen(trade, asset.latestPrice) ELSE 0]
       /\ UNCHANGED <<readVars, configVars, botVars, now, faultVars, scans>>

\* managePositions after its UPDATE: the "CLOSED ... (reason)" log line and the
\* exit archive event, then the loop's next asset.
managePositionsDone(e) ==
    LET ev == evals[e]
    IN /\ ev.pc = "closed"
       /\ \E st \in BeginAsset(ev.rev, Tail(ev.lb)) : evals' = [evals EXCEPT ![e] = st]
       /\ UNCHANGED <<readVars, configVars, botVars, now, faultVars, tradeVars, scans>>

\* The catch inside evaluateMarketState's for loop: the error is logged and
\* the loop goes on with the next asset.
evaluateCaught(e) ==
    LET ev == evals[e]
    IN /\ ev.pc \in {"queryFailed", "insertFailed"}
       /\ \E st \in BeginAsset(ev.rev, Tail(ev.lb)) : evals' = [evals EXCEPT ![e] = st]
       /\ UNCHANGED <<readVars, configVars, botVars, now, faultVars, tradeVars, scans>>

\* ------------------------------------------------------- SentimentService
\* A row of sentiment_metrics: sentiment_score holds the price, volume is held
\* in tenths of a unit (last_size is fractional on the feed).
Obs(ticker, score, volume) ==
    [ticker |-> ticker, sentiment_score |-> score, volume |-> volume]

Scores == {1, 2, 4}

Volumes == {5, 10000}

Observations ==
    {Obs("BTC", score, volume) : score \in Scores, volume \in Volumes}
        \cup {Obs("SOL", 1, 10000)}

\* Three recorded feeds: a quadratic series at volume 1000, a BTC run-up, and
\* two tickers whose ticks alternate.
QuadraticFeed ==
    <<Obs("BTC", 1, 10000), Obs("BTC", 2, 10000), Obs("BTC", 4, 10000),
      Obs("BTC", 7, 10000), Obs("BTC", 11, 10000)>>

RunUpFeed ==
    <<Obs("BTC", 100, 500), Obs("BTC", 101, 600), Obs("BTC", 103, 800),
      Obs("BTC", 108, 1500), Obs("BTC", 116, 3000)>>

TwoTickerFeed ==
    <<Obs("BTC", 1, 10000), Obs("SOL", 1, 10000), Obs("BTC", 2, 10000),
      Obs("SOL", 2, 10000), Obs("BTC", 4, 10000), Obs("SOL", 7, 10000)>>

Feeds ==
    UNION {[1..n -> Observations] : n \in 0..MaxFeed}
        \cup {QuadraticFeed, RunUpFeed, TwoTickerFeed}

\* Math.log10(total / n) in thousandths, total in tenths of a unit: tabulated
\* (rounded to the thousandth) at the volumes and volume averages the feeds
\* produce. n = 1 gives the logarithm of one volume.
Log10Milli(total, n) ==
    CASE 2 * total = 10 * n -> -301
      [] 1 * total = 500 * n -> 1699
      [] 1 * total = 550 * n -> 1740
      [] 1 * total = 600 * n -> 1778
      [] 3 * total = 1900 * n -> 1802
      [] 1 * total = 700 * n -> 1845
      [] 1 * total = 800 * n -> 1903
      [] 1 * total = 850 * n -> 1929
      [] 3 * total = 2900 * n -> 1985
      [] 1 * total = 1150 * n -> 2061
      [] 1 * total = 1280 * n -> 2107
      [] 2 * total = 2950 * n -> 2169
      [] 1 * total = 1500 * n -> 2176
      [] 12 * total = 20050 * n -> 2223
      [] 3 * total = 5300 * n -> 2247
      [] 5 * total = 10020 * n -> 2302
      [] 1 * total = 2250 * n -> 2352
      [] 8 * total = 20030 * n -> 2399
      [] 1 * total = 3000 * n -> 2477
      [] 3 * total = 10010 * n -> 2523
      [] 10 * total = 40030 * n -> 2602
      [] 4 * total = 20010 * n -> 2699
      [] 5 * total = 30010 * n -> 2778
      [] 6 * total = 40010 * n -> 2824
      [] 8 * total = 60010 * n -> 2875
      [] 10 * total = 80010 * n -> 2903
      [] 12 * total = 100010 * n -> 2921
      [] 1 * total = 10000 * n -> 3000

\* calculateAcceleration(data, h = 1): the loop from index i on (1-based), the
\* second differences pushed in order.
RECURSIVE AccelerationLoop(_, _, _)
AccelerationLoop(data, i, acceleration) ==
    IF i < Len(data)
    THEN AccelerationLoop(data, i + 1,
                          Append(acceleration, data[i + 1] - 2 * data[i] + data[i - 1]))
    ELSE acceleration

\* The first differences in the place of the second differences.
calculateVelocity(data) ==
    IF Len(data) < 3 THEN <<>>
    ELSE [i \in 1..(Len(data) - 2) |-> data[i + 2] - data[i + 1]]

calculateAcceleration(data) ==
    IF Len(data) < 3 THEN <<>> ELSE AccelerationLoop(data, 2, <<>>)

Abs(x) == IF x < 0 THEN -x ELSE x

\* const safeVolume = latestVolume > 1 ? Math.log10(latestVolume) : 0
SafeVolume(total, n) == IF total > 10 * n THEN Log10Milli(total, n) ELSE 0

\* groups[t]: the rows of one ticker, in window order.
History(rawData, ticker) == SelectSeq(rawData, LAMBDA row : row.ticker = ticker)

\* The keys of groups in the order for..in visits them: first appearance.
RECURSIVE GroupKeys(_)
GroupKeys(rawData) ==
    IF rawData = <<>> THEN <<>>
    ELSE LET init == SubSeq(rawData, 1, Len(rawData) - 1)
             t == rawData[Len(rawData)].ticker
             keys == GroupKeys(init)
         IN IF \E i \in DOMAIN keys : keys[i] = t THEN keys ELSE Append(keys, t)

\* The body of the for..in loop for one ticker with enough rows: the object
\* pushed on the leaderboard (isHijacking only drives the Telegram alert).
Reading(ticker, history) ==
    LET priceData == [i \in DOMAIN history |-> history[i].sentiment_score]
        accelerations == calculateAcceleration(priceData)
        currentAccel == IF accelerations = <<>> THEN 0
                        ELSE accelerations[Len(accelerations)]
        latestVolume == history[Len(history)].volume
        latestPrice == history[Len(history)].sentiment_score
    IN [ticker |-> ticker,
        hijackForce |-> Abs(currentAccel) * SafeVolume(latestVolume, 1),
        latestPrice |-> latestPrice]

\* The for..in loop skipping only the tickers with fewer than 2 rows.
RECURSIVE ReadingsFromTwo(_, _)
ReadingsFromTwo(rawData, keys) ==
    IF keys = <<>> THEN <<>>
    ELSE LET history == History(rawData, Head(keys))
             rest == ReadingsFromTwo(rawData, Tail(keys))
         IN IF Len(history) < 2 THEN rest
            ELSE <<Reading(Head(keys), history)>> \o rest

\* The for..in loop: tickers with fewer than 3 rows are skipped.
RECURSIVE Readings(_, _)
Readings(rawData, keys) ==
    IF keys = <<>> THEN <<>>
    ELSE LET history == History(rawData, Head(keys))
             rest == Readings(rawData, Tail(keys))
         IN IF Len(history) < 3 THEN rest
            ELSE <<Reading(Head(keys), history)>> \o rest

\* leaderboard.sort((a, b) => b.hijackForce - a.hijackForce): stable, by force
\* descending.
RECURSIVE Ranking(_)
Ranking(lb) ==
    IF lb = <<>> THEN <<>>
    ELSE LET init == Ranking(SubSeq(lb, 1, Len(lb) - 1))
             last == lb[Len(lb)]
             k == Cardinality({i \in DOMAIN init : init[i].hijackForce >= last.hijackForce})
         IN SubSeq(init, 1, k) \o <<last>> \o SubSeq(init, k + 1, Len(init))

\* The leaderboard getMarketLeaderboard computes from the rows of the window.
LeaderboardOf(rawData) == Ranking(Readings(rawData, GroupKeys(rawData)))

NoLeaderboard == [rows |-> <<>>, readings |-> <<>>]

\* getMarketLeaderboard: the window query, the leaderboard, and the call of
\* PaperService.evaluateMarketState (fire and forget) up to its first await.
\* An empty window returns [] before that call, and so does the catch when the
\* window query rejects.
getMarketLeaderboard(e, rev, serial) ==
    LET rawData == IF dbUp THEN sentiment_metrics ELSE <<>>
        lb == LeaderboardOf(rawData)
    IN /\ evals[e].pc = "idle"
       /\ serial => AllIdle
       /\ lastLeaderboard' = [rows |-> rawData, readings |-> lb]
       /\ IF rawData = <<>>
          THEN UNCHANGED evals
          ELSE \E st \in BeginAsset(rev, lb) : evals' = [evals EXCEPT ![e] = st]
       /\ UNCHANGED <<analysis, feed, sentiment_metrics>>
       /\ UNCHANGED <<configVars, botVars, now, faultVars, tradeVars, scans>>

\* MultiTimeframeService: calculateAcceleration there returns the last second
\* difference, 0 under three values.
calculateLastAcceleration(data) ==
    IF Len(data) < 3 THEN 0
    ELSE data[Len(data)] - 2 * data[Len(data) - 1] + data[Len(data) - 2]

RECURSIVE SumVolume(_)
SumVolume(rows) ==
    IF rows = <<>> THEN 0 ELSE rows[1].volume + SumVolume(Tail(rows))

\* calculateMultiForce(ticker), the entry of one timeframe: rows is what its
\* query returns for the ticker.
calculateMultiForce(rows) ==
    IF Len(rows) < 3 THEN [force |-> 0, trend |-> "FLAT"]
    ELSE LET prices == [i \in DOMAIN rows |-> rows[i].sentiment_score]
             accel == calculateLastAcceleration(prices)
         IN [force |-> Abs(accel) * SafeVolume(SumVolume(rows), Len(rows)),
             trend |-> IF accel > 0 THEN "UP" ELSE IF accel < 0 THEN "DOWN" ELSE "FLAT"]

\* IngestorService: a tick of the feed becomes a row of sentiment_metrics.
ingest ==
    /\ AllIdle
    /\ feed # <<>>
    /\ sentiment_metrics' = Append(sentiment_metrics, Head(feed))
    /\ feed' = Tail(feed)
    /\ UNCHANGED <<analysis, lastLeaderboard>>
    /\ UNCHANGED <<configVars, botVars, now, faultVars, tradeVars, procVars>>

\* WHERE time >= NOW() - INTERVAL '3 minutes': the oldest row leaves the window.
expire ==
    /\ AllIdle
    /\ sentiment_metrics # <<>>
    /\ sentiment_metrics' = Tail(sentiment_metrics)
    /\ UNCHANGED <<analysis, feed, lastLeaderboard>>
    /\ UNCHANGED <<configVars, botVars, now, faultVars, tradeVars, procVars>>

\* ------------------------------------------------------ AutoTraderService
Modes == {"AGGRESSIVE", "BALANCED", "CONSERVATIVE"}

InitBotConfig ==
    [enabled |-> FALSE, mode |-> "BALANCED", maxOpenPositions |-> 3,
     positionSizeUsd |-> 100, minMLConfidence |-> 55,
     requireSentimentAlignment |-> TRUE, minAlignmentScore |-> 60,
     cooldownMinutes |-> 30, tradingHoursOnly |-> FALSE]

\* lastTrade: the time of the last executed trade (0: null). signalsGenerated,
\* lastSignal and uptime are telemetry no decision reads; they are left out.
InitBotStats ==
    [isRunning |-> FALSE, mode |-> "BALANCED", tradesExecuted |-> 0, lastTrade |-> 0]

MODE_PRESETS(mode) ==
    CASE mode = "AGGRESSIVE" ->
            [minMLConfidence |-> 45, minAlignmentScore |-> 40,
             requireSentimentAlignment |-> FALSE, cooldownMinutes |-> 15]
      [] mode = "BALANCED" ->
            [minMLConfidence |-> 55, minAlignmentScore |-> 60,
             requireSentimentAlignment |-> TRUE, cooldownMinutes |-> 30]
      [] mode = "CONSERVATIVE" ->
            [minMLConfidence |-> 70, minAlignmentScore |-> 75,
             requireSentimentAlignment |-> TRUE, cooldownMinutes |-> 60]

\* MLPredictorService.predictAll(): one prediction per ticker, by confidence
\* descending.
Directions == {"UP", "DOWN"}
Confidences == {50, 70}
Predictions == [ticker : Tickers, direction : Directions, confidence : Confidences]

IsPredictionList(ps) ==
    \A i, j \in DOMAIN ps : i < j =>
        /\ ps[i].ticker # ps[j].ticker
        /\ ps[i].confidence >= ps[j].confidence

PredictionLists ==
    {ps \in UNION {[1..n -> Predictions] : n \in 1..MaxAssets} : IsPredictionList(ps)}

\* getHighConfidencePredictions that returns every prediction.
KeepAll(ps, minConfidence) == ps

\* getHighConfidencePredictions(minConfidence): all.filter(p => p.confidence >= min)
RECURSIVE Filter(_, _)
Filter(ps, minConfidence) ==
    IF ps = <<>> THEN <<>>
    ELSE IF Head(ps).confidence >= minConfidence
         THEN <<Head(ps)>> \o Filter(Tail(ps), minConfidence)
         ELSE Filter(Tail(ps), minConfidence)

\* What the four auxiliary sources answer: ok = FALSE is a lookup that threw.
Failed == [ok |-> FALSE, value |-> 0]
FearGreedReadings == {Failed} \cup {[ok |-> TRUE, value |-> v] : v \in {20, 50, 80}}
SocialReadings == {Failed} \cup {[ok |-> TRUE, value |-> v] : v \in {-2, 0, 2}}
\* options.sentiment: 1 BULLISH, -1 BEARISH, 0 NEUTRAL
OptionsReadings == {Failed} \cup {[ok |-> TRUE, value |-> v] : v \in {-1, 0, 1}}
OnChainReadings == {Failed} \cup {[ok |-> TRUE, value |-> v] : v \in {40, 50, 70}}

SourceReadings ==
    [fg : FearGreedReadings, social : SocialReadings, options : OptionsReadings,
     onchain : OnChainReadings]

\* The readings the scans of the trading specifications meet: every source
\* bullish, every source bearish, a split vote, and two sources down.
ScanReadings ==
    {[fg |-> [ok |-> TRUE, value |-> 20], social |-> [ok |-> TRUE, value |-> 2],
      options |-> [ok |-> TRUE, value |-> 1], onchain |-> [ok |-> TRUE, value |-> 70]],
     [fg |-> [ok |-> TRUE, value |-> 80], social |-> [ok |-> TRUE, value |-> -2],
      options |-> [ok |-> TRUE, value |-> -1], onchain |-> [ok |-> TRUE, value |-> 40]],
     [fg |-> [ok |-> TRUE, value |-> 80], social |-> [ok |-> TRUE, value |-> 2],
      options |-> Failed, onchain |-> [ok |-> TRUE, value |-> 50]],
     [fg |-> Failed, social |-> [ok |-> TRUE, value |-> 2],
      options |-> Failed, onchain |-> Failed]}

mlSignal(direction) ==
    IF direction = "UP" THEN "BULLISH" ELSE IF direction = "DOWN" THEN "BEARISH" ELSE "NEUTRAL"

fgSignal(value) ==
    IF value <= 25 THEN "BULLISH" ELSE IF value >= 75 THEN "BEARISH" ELSE "NEUTRAL"

socialSignal(score) ==
    IF score >= 2 THEN "BULLISH" ELSE IF score <= -2 THEN "BEARISH" ELSE "NEUTRAL"

optSignal(sentiment) ==
    IF sentiment = 1 THEN "BULLISH" ELSE IF sentiment = -1 THEN "BEARISH" ELSE "NEUTRAL"

ocSignal(score) ==
    IF score >= 70 THEN "BULLISH" ELSE IF score <= 40 THEN "BEARISH" ELSE "NEUTRAL"

\* Options flow is read for BTC and ETH only.
HasOptions(ticker) == ticker \in {"BTC", "ETH", "BTCUSD", "ETHUSD"}

\* signals[]: the votes pushed, each with its weight, in source order.
SignalsOf(mlPrediction, r) ==
    <<[source |-> "ML Predictor", signal |-> mlSignal(mlPrediction.direction), weight |-> 30]>>
    \o (IF r.fg.ok
        THEN <<[source |-> "Fear & Greed", signal |-> fgSignal(r.fg.value), weight |-> 20]>>
        ELSE <<>>)
    \o (IF r.social.ok
        THEN <<[source |-> "Social Sentiment", signal |-> socialSignal(r.social.value),
                weight |-> 20]>>
        ELSE <<>>)
    \o (IF HasOptions(mlPrediction.ticker) /\ r.options.ok
        THEN <<[source |-> "Options Flow", signal |-> optSignal(r.options.value),
                weight |-> 15]>>
        ELSE <<>>)
    \o (IF r.onchain.ok
        THEN <<[source |-> "On-Chain", signal |-> ocSignal(r.onchain.value), weight |-> 15]>>
        ELSE <<>>)

RECURSIVE WeightOf(_, _)
WeightOf(signals, polarity) ==
    IF signals = <<>> THEN 0
    ELSE (IF polarity = "ANY" \/ Head(signals).signal = polarity
          THEN Head(signals).weight ELSE 0)
         + WeightOf(Tail(signals), polarity)

Max(a, b) == IF a >= b THEN a ELSE b

\* Math.floor in the place of Math.round.
FloorPercent(x, y) == (100 * x) \div y

\* Math.round(x / y * 100) for x >= 0, y > 0: halves round up.
RoundPercent(x, y) == (200 * x + y) \div (2 * y)

NoSignal ==
    [ticker |-> "", direction |-> "", confidence |-> 0, alignmentScore |-> 0,
     sources |-> 0, price |-> 0]

\* generateSignal content with two signals.
generateSignalOfTwo(mlPrediction, r, price) ==
    LET signals == SignalsOf(mlPrediction, r)
        totalWeight == WeightOf(signals, "ANY")
        bullishWeight == WeightOf(signals, "BULLISH")
        bearishWeight == WeightOf(signals, "BEARISH")
        dominantWeight == Max(bullishWeight, bearishWeight)
    IN IF Len(signals) < 2 THEN NoSignal
       ELSE [ticker |-> mlPrediction.ticker,
             direction |-> IF bullishWeight > bearishWeight THEN "LONG" ELSE "SHORT",
             confidence |-> mlPrediction.confidence,
             alignmentScore |-> IF totalWeight > 0
                                THEN RoundPercent(dominantWeight, totalWeight) ELSE 0,
             sources |-> Len(signals),
             price |-> price]

\* generateSignal(mlPrediction): NoSignal is its null.
generateSignal(mlPrediction, r, price) ==
    LET signals == SignalsOf(mlPrediction, r)
        totalWeight == WeightOf(signals, "ANY")
        bullishWeight == WeightOf(signals, "BULLISH")
        bearishWeight == WeightOf(signals, "BEARISH")
        dominantWeight == Max(bullishWeight, bearishWeight)
    IN IF Len(signals) < 3 THEN NoSignal
       ELSE [ticker |-> mlPrediction.ticker,
             direction |-> IF bullishWeight > bearishWeight THEN "LONG" ELSE "SHORT",
             confidence |-> mlPrediction.confidence,
             alignmentScore |-> IF totalWeight > 0
                                THEN RoundPercent(dominantWeight, totalWeight) ELSE 0,
             sources |-> Len(signals),
             price |-> price]

\* MLPredictorService.predictAsset(ticker): the direction may be NEUTRAL.
AssetPredictions ==
    [ticker : Tickers, direction : Directions \cup {"NEUTRAL"}, confidence : Confidences]

\* rows[0]?.price || 0: no row, or a failed query, gives 0.
SignalPrices == Prices \cup {0}

\* One analyzeAsset call: the prediction, the source readings and the price it
\* meets, and the signal it answers with once it has run.
NoAnalysis ==
    [prediction |-> [ticker |-> "", direction |-> "", confidence |-> 0],
     readings |-> [fg |-> Failed, social |-> Failed, options |-> Failed,
                   onchain |-> Failed],
     price |-> 0, done |-> FALSE, signal |-> NoSignal]

Analyses ==
    {[prediction |-> prediction, readings |-> r, price |-> price,
      done |-> FALSE, signal |-> NoSignal] :
        prediction \in AssetPredictions, r \in SourceReadings, price \in SignalPrices}

\* analyzeAsset(ticker): the prediction for the ticker, then generateSignal on it.
analyzeAsset(ticker) ==
    /\ ~analysis.done
    /\ analysis.prediction.ticker = ticker
    /\ analysis' = [analysis EXCEPT
                       !.done = TRUE,
                       !.signal = generateSignal(analysis.prediction, analysis.readings,
                                                 analysis.price)]
    /\ UNCHANGED <<feed, sentiment_metrics, lastLeaderboard>>
    /\ UNCHANGED <<configVars, botVars, now, faultVars, tradeVars, procVars>>

isOnCooldown(ticker) ==
    LET lastTrade == tradeCooldowns[ticker]
    IN IF lastTrade = 0 THEN FALSE
       ELSE (now - lastTrade) < botConfig.cooldownMinutes

\* minMLConfidence, minAlignmentScore: observers, the thresholds this scan has
\* read from botConfig so far (0: none).
IdleScan == [pc |-> "idle", preds |-> <<>>, signal |-> NoSignal, openCount |-> 0,
             existing |-> FALSE, minMLConfidence |-> 0, minAlignmentScore |-> 0]

RECURSIVE SkipCooldown(_)
SkipCooldown(ps) ==
    IF ps = <<>> THEN <<>>
    ELSE IF isOnCooldown(Head(ps).ticker) THEN SkipCooldown(Tail(ps)) ELSE ps

\* generateSignal's price lookup: rows[0]?.price || 0, and 0 from its catch
\* when the query rejects.
PriceLookup == IF dbUp THEN Prices ELSE {0}

\* The for loop of scan up to generateSignal's result: predictions on cooldown
\* are skipped, the next one gets its signal. No prediction left ends the scan.
BeginPrediction(sc, ps) ==
    LET rest == SkipCooldown(ps)
    IN IF rest = <<>> THEN {IdleScan}
       ELSE {[IdleScan EXCEPT !.pc = "signal", !.preds = rest,
                              !.signal = generateSignal(Head(rest), r, price),
                              !.minMLConfidence = sc.minMLConfidence] :
                r \in ScanReadings, price \in PriceLookup}

\* predictAll: the predictions of the active tickers, [] from its catch when
\* the tickers query rejects.
predictAll(lists) == IF dbUp THEN lists ELSE {<<>>}

\* scan() up to its awaited getHighConfidencePredictions(botConfig.minMLConfidence).
\* lists: the prediction lists the model can return.
ScanEntry(config, s, lists) ==
    IF config.enabled /\ isPaperTradingAllowed
    THEN \E all \in predictAll(lists) :
            scans' = [scans EXCEPT ![s] =
                [IdleScan EXCEPT !.pc = "predict",
                                 !.preds = Filter(all, config.minMLConfidence),
                                 !.minMLConfidence = config.minMLConfidence]]
    ELSE UNCHANGED scans

\* start(mode): the preset, the 30-second timer and the initial scan.
start(s, mode, lists, serial) ==
    /\ ~botStats.isRunning
    /\ serial => AllIdle
    /\ scans[s].pc = "idle"
    /\ botConfig' = [Merge(Merge(botConfig, MODE_PRESETS(mode)), [mode |-> mode])
                        EXCEPT !.enabled = TRUE]
    /\ botStats' = [botStats EXCEPT !.isRunning = TRUE, !.mode = mode]
    /\ scanInterval' = TRUE
    /\ ScanEntry(botConfig', s, lists)
    /\ UNCHANGED <<readVars, configVars, tradeCooldowns, now, faultVars, tradeVars, evals>>

stop(serial) ==
    /\ botStats.isRunning
    /\ serial => AllIdle
    /\ botConfig' = [botConfig EXCEPT !.enabled = FALSE]
    /\ botStats' = [botStats EXCEPT !.isRunning = FALSE]
    /\ scanInterval' = FALSE
    /\ UNCHANGED <<readVars, configVars, tradeCooldowns, now, faultVars, tradeVars, procVars>>

\* The timer's callback: scan().
scan(s, lists, serial) ==
    /\ scanInterval
    /\ serial => AllIdle
    /\ scans[s].pc = "idle"
    /\ botConfig.enabled /\ isPaperTradingAllowed
    /\ ScanEntry(botConfig, s, lists)
    /\ UNCHANGED <<readVars, configVars, botVars, now, faultVars, tradeVars, evals>>

\* scan with the predictions in hand, or back from executeTrade (its archive
\* write and alert awaited): the loop goes on.
scanLoop(s) ==
    /\ scans[s].pc \in {"predict", "next"}
    /\ \E st \in BeginPrediction(scans[s], scans[s].preds) :
            scans' = [scans EXCEPT ![s] = st]
    /\ UNCHANGED <<readVars, configVars, botVars, now, faultVars, tradeVars, evals>>

\* scan with the signal in hand: the alignment test, then canExecuteTrade up to
\* its awaited COUNT(*). canExecuteTrade catches nothing: a query of its that
\* rejects throws into the catch around scan's whole loop.
scanSignal(s) ==
    LET sc == scans[s]
    IN /\ sc.pc = "signal"
       /\ IF sc.signal # NoSignal /\ sc.signal.alignmentScore >= botConfig.minAlignmentScore
          THEN scans' = [scans EXCEPT
                  ![s].pc = IF dbUp THEN "count" ELSE "scanError",
                  ![s].openCount = IF dbUp THEN OpenCount ELSE 0,
                  ![s].minAlignmentScore = botConfig.minAlignmentScore]
          ELSE \E st \in BeginPrediction(sc, Tail(sc.preds)) :
                  scans' = [scans EXCEPT ![s] = st]
       /\ UNCHANGED <<readVars, configVars, botVars, now, faultVars, tradeVars, evals>>

\* canExecuteTrade with the count in hand, up to its awaited SELECT.
canExecuteTradeCount(s) ==
    LET sc == scans[s]
    IN /\ sc.pc = "count"
       /\ IF sc.openCount >= botConfig.maxOpenPositions
          THEN \E st \in BeginPrediction(sc, Tail(sc.preds)) :
                  scans' = [scans EXCEPT ![s] = st]
          ELSE scans' = [scans EXCEPT
                  ![s].pc = IF dbUp THEN "existing" ELSE "scanError",
                  ![s].existing = dbUp /\ (OpenRows(sc.signal.ticker) # {})]
       /\ UNCHANGED <<readVars, configVars, botVars, now, faultVars, tradeVars, evals>>

\* canExecuteTrade with the SELECT in hand; on true, executeTrade up to its INSERT.
\* An INSERT that rejects throws past the cooldown, the counters, the archive
\* write and the alert, into executeTrade's own catch.
executeTrade(s) ==
    LET sc == scans[s]
        signal == sc.signal
    IN /\ sc.pc = "existing"
       /\ IF \/ sc.existing
             \/ (botConfig.mode = "CONSERVATIVE" /\ signal.direction = "SHORT")
          THEN /\ \E st \in BeginPrediction(sc, Tail(sc.preds)) :
                     scans' = [scans EXCEPT ![s] = st]
               /\ UNCHANGED paper_trades
          ELSE IF Accepted(Frac(botConfig.positionSizeUsd, signal.price))
          THEN /\ Insert(signal.ticker, signal.price,
                         Frac(botConfig.positionSizeUsd, signal.price))
               /\ scans' = [scans EXCEPT ![s].pc = "executed"]
          ELSE /\ scans' = [scans EXCEPT ![s].pc = "tradeError"]
               /\ UNCHANGED paper_trades
       /\ UNCHANGED <<readVars, configVars, botVars, now, faultVars, highWaterMark, evals>>

\* executeTrade after its INSERT: the cooldown and the counters; then the loop.
executeTradeDone(s) ==
    LET sc == scans[s]
    IN /\ sc.pc = "executed"
       /\ tradeCooldowns' = [tradeCooldowns EXCEPT ![sc.signal.ticker] = now]
       /\ botStats' = [botStats EXCEPT !.tradesExecuted = @ + 1, !.lastTrade = now]
       /\ scans' = [scans EXCEPT ![s] =
               [IdleScan EXCEPT !.pc = "next", !.preds = Tail(sc.preds),
                                !.minMLConfidence = sc.minMLConfidence]]
       /\ UNCHANGED <<readVars, configVars, botConfig, scanInterval, now, faultVars, tradeVars, evals>>

\* executeTrade with the cooldown set before the INSERT is known to have
\* succeeded.
executeTradeCaughtOnCooldown(s) ==
    LET sc == scans[s]
    IN /\ sc.pc = "tradeError"
       /\ tradeCooldowns' = [tradeCooldowns EXCEPT ![sc.signal.ticker] = now]
       /\ scans' = [scans EXCEPT ![s] =
               [IdleScan EXCEPT !.pc = "next", !.preds = Tail(sc.preds),
                                !.minMLConfidence = sc.minMLConfidence]]
       /\ UNCHANGED <<readVars, configVars, botConfig, botStats, scanInterval, now,
                      faultVars, tradeVars, evals>>

\* executeTrade's catch: the error is logged, executeTrade returns and scan's
\* loop goes on.
executeTradeCaught(s) ==
    LET sc == scans[s]
    IN /\ sc.pc = "tradeError"
       /\ scans' = [scans EXCEPT ![s] =
               [IdleScan EXCEPT !.pc = "next", !.preds = Tail(sc.preds),
                                !.minMLConfidence = sc.minMLConfidence]]
       /\ UNCHANGED <<readVars, configVars, botVars, now, faultVars, tradeVars, evals>>

\* The catch around scan's loop: the error is logged and scan returns.
scanCaught(s) ==
    /\ scans[s].pc = "scanError"
    /\ scans' = [scans EXCEPT ![s] = IdleScan]
    /\ UNCHANGED <<readVars, configVars, botVars, now, faultVars, tradeVars, evals>>

\* AutoTraderService.updateConfig(updates): the updates over botConfig, and the
\* preset of updates.mode over both.
botUpdateConfig(updates) ==
    /\ botConfig' = IF "mode" \in DOMAIN updates
                    THEN Merge(Merge(botConfig, updates), MODE_PRESETS(updates.mode))
                    ELSE Merge(botConfig, updates)
    /\ UNCHANGED <<readVars, configVars, botStats, tradeCooldowns, scanInterval, now,
                   faultVars, tradeVars, procVars>>

\* ------------------------------------------------------------ the system
\* The HTTP handlers of the config routes. serial: no handler is in flight.
\* logged: the operation is recorded in configLog.
UpdateConfig(updates, serial, logged) ==
    /\ serial => AllIdle
    /\ updateConfig(updates)
    /\ Logged("updateConfig", updates, logged)
    /\ UNCHANGED <<readVars, botVars, now, faultVars, tradeVars, procVars>>

ActivateKillSwitch(serial, logged) ==
    /\ serial => AllIdle
    /\ activateKillSwitch
    /\ Logged("activateKillSwitch", <<>>, logged)
    /\ UNCHANGED <<readVars, botVars, now, faultVars, tradeVars, procVars>>

DeactivateKillSwitch(serial, logged) ==
    /\ serial => AllIdle
    /\ deactivateKillSwitch
    /\ Logged("deactivateKillSwitch", <<>>, logged)
    /\ UNCHANGED <<readVars, botVars, now, faultVars, tradeVars, procVars>>

ResetToDefaults(serial, logged) ==
    /\ serial => AllIdle
    /\ resetToDefaults
    /\ Logged("resetToDefaults", <<>>, logged)
    /\ UNCHANGED <<readVars, botVars, now, faultVars, tradeVars, procVars>>

\* No getPaperStats request answered yet.
NoReply == [status |-> 0, data |-> <<>>]

\* Time passes.
Tick ==
    /\ now + ClockStep <= MaxClock
    /\ now' = now + ClockStep
    /\ UNCHANGED <<readVars, configVars, botVars, tradeVars, procVars, faultVars>>

InitSystem ==
    /\ currentConfig = DEFAULT_CONFIG
    /\ defaultConfig = DEFAULT_CONFIG
    /\ aliased = FALSE
    /\ configLog = <<NoOp, NoOp>>
    /\ botConfig = InitBotConfig
    /\ botStats = InitBotStats
    /\ tradeCooldowns = [t \in Tickers |-> 0]
    /\ scanInterval = FALSE
    /\ now = ClockStep
    /\ paper_trades = <<>>
    /\ highWaterMark = [t \in Tickers |-> 0]
    /\ evals = [e \in 1..MaxEvals |-> IdleEval]
    /\ scans = [s \in 1..MaxScans |-> IdleScan]
    /\ dbUp = TRUE
    /\ statsReply = NoReply

Init ==
    /\ InitSystem
    /\ analysis = NoAnalysis
    /\ feed = <<>>
    /\ sentiment_metrics = <<>>
    /\ lastLeaderboard = NoLeaderboard

\* A call takes the first free slot: the slots are interchangeable.
FirstIdle(procs, p) ==
    /\ procs[p].pc = "idle"
    /\ \A q \in DOMAIN procs : q < p => procs[q].pc # "idle"

\* The continuations of the handlers in flight.
OpenPosition == \E e \in DOMAIN evals : openPosition(e)

OpenPositionDone == \E e \in DOMAIN evals : openPositionDone(e)

ManagePositions == \E e \in DOMAIN evals : managePositions(e)

ManagePositionsDone == \E e \in DOMAIN evals : managePositionsDone(e)

ScanLoop == \E s \in DOMAIN scans : scanLoop(s)

ScanSignal == \E s \in DOMAIN scans : scanSignal(s)

CanExecuteTradeCount == \E s \in DOMAIN scans : canExecuteTradeCount(s)

ExecuteTrade == \E s \in DOMAIN scans : executeTrade(s)

ExecuteTradeDone == \E s \in DOMAIN scans : executeTradeDone(s)

\* The calls, serial or overlapping.
EvaluateMarketState(serial) ==
    \E e \in DOMAIN evals, rev \in Revisions, lb \in Leaderboards :
        FirstIdle(evals, e) /\ evaluateMarketState(e, rev, lb, serial)

Start(serial) ==
    \E s \in DOMAIN scans, mode \in Modes :
        FirstIdle(scans, s) /\ start(s, mode, PredictionLists, serial)

Scan(serial) ==
    \E s \in DOMAIN scans : FirstIdle(scans, s) /\ scan(s, PredictionLists, serial)

UpdateTradingConfig(serial) == \E u \in TradingUpdates : UpdateConfig(u, serial, FALSE)

\* Handlers run one at a time, each to its end, under config changes.
NextSeq ==
    \/ UpdateTradingConfig(TRUE)
    \/ ActivateKillSwitch(TRUE, FALSE)
    \/ DeactivateKillSwitch(TRUE, FALSE)
    \/ ResetToDefaults(TRUE, FALSE)
    \/ EvaluateMarketState(TRUE)
    \/ Start(TRUE)
    \/ stop(TRUE)
    \/ Scan(TRUE)
    \/ OpenPosition
    \/ OpenPositionDone
    \/ ManagePositions
    \/ ManagePositionsDone
    \/ ScanLoop
    \/ ScanSignal
    \/ CanExecuteTradeCount
    \/ ExecuteTrade
    \/ ExecuteTradeDone

SpecSeq == Init /\ [][NextSeq]_vars

\* Handlers run one at a time while time passes.
NextClock ==
    \/ Tick
    \/ EvaluateMarketState(TRUE)
    \/ Start(TRUE)
    \/ stop(TRUE)
    \/ Scan(TRUE)
    \/ OpenPosition
    \/ OpenPositionDone
    \/ ManagePositions
    \/ ManagePositionsDone
    \/ ScanLoop
    \/ ScanSignal
    \/ CanExecuteTradeCount
    \/ ExecuteTrade
    \/ ExecuteTradeDone

SpecClock == Init /\ [][NextClock]_vars

\* The evaluateMarketState calls overlap: getMarketLeaderboard starts each one
\* without awaiting it, and each call in flight resumes at its awaited queries
\* in any order.
Next ==
    \/ EvaluateMarketState(FALSE)
    \/ OpenPosition
    \/ OpenPositionDone
    \/ ManagePositions
    \/ ManagePositionsDone

Spec == Init /\ [][Next]_vars

\* Signal generation alone: the manual analysis of one asset, over every
\* combination of prediction and source readings.
AnalyzeAsset == \E ticker \in Tickers : analyzeAsset(ticker)

NextSignal == AnalyzeAsset

InitSignal ==
    /\ InitSystem
    /\ analysis \in Analyses
    /\ feed = <<>>
    /\ sentiment_metrics = <<>>
    /\ lastLeaderboard = NoLeaderboard

SpecSignal == InitSignal /\ [][NextSignal]_vars

\* The paper trader alone on prices a few percent apart, one cycle at a time.
TrailPrices == {1000, 1010, 1029}

TrailLeaderboards ==
    {<<[ticker |-> t, hijackForce |-> f, latestPrice |-> p]>> :
        t \in Tickers, f \in {0, 100}, p \in TrailPrices}

EvaluateTrail ==
    \E e \in DOMAIN evals, rev \in Revisions, lb \in TrailLeaderboards :
        FirstIdle(evals, e) /\ evaluateMarketState(e, rev, lb, TRUE)

NextTrail ==
    \/ EvaluateTrail
    \/ OpenPosition
    \/ OpenPositionDone
    \/ ManagePositions
    \/ ManagePositionsDone

SpecTrail == Init /\ [][NextTrail]_vars

\* The leaderboard path: ticks arrive and age out, each leaderboard request
\* computes the forces and runs the paper trader on them, one request at a time.
GetMarketLeaderboard(serial) ==
    \E e \in DOMAIN evals, rev \in Revisions :
        FirstIdle(evals, e) /\ getMarketLeaderboard(e, rev, serial)

Ingest == ingest

Expire == expire

InitMarket ==
    /\ InitSystem
    /\ analysis = NoAnalysis
    /\ feed \in Feeds
    /\ sentiment_metrics = <<>>
    /\ lastLeaderboard = NoLeaderboard

NextMarket ==
    \/ Ingest
    \/ Expire
    \/ GetMarketLeaderboard(TRUE)
    \/ OpenPosition
    \/ OpenPositionDone
    \/ ManagePositions
    \/ ManagePositionsDone
    \/ UpdateTradingConfig(TRUE)

SpecMarket == InitMarket /\ [][NextMarket]_vars

\* The ConfigService alone, every operation recorded.
UpdateAnyConfig == \E u \in ConfigUpdates : UpdateConfig(u, FALSE, TRUE)

NextConfig ==
    \/ UpdateAnyConfig
    \/ ActivateKillSwitch(FALSE, TRUE)
    \/ DeactivateKillSwitch(FALSE, TRUE)
    \/ ResetToDefaults(FALSE, TRUE)

SpecConfig == Init /\ [][NextConfig]_vars

\* The traders under persistence failures: cycles over two tickers, one
\* handler started at a time; the database goes down and comes back, stop() and
\* updateConfig() are called between any two awaited queries of a scan.
FaultLeaderboards ==
    {lb \in [1..2 -> [ticker : Tickers, hijackForce : Forces, latestPrice : {100}]] :
        IsLeaderboard(lb)}

FaultPredictionLists ==
    {ps \in [1..2 -> [ticker : Tickers, direction : {"UP"}, confidence : Confidences]] :
        IsPredictionList(ps)}

BotUpdates == {[minMLConfidence |-> 70, minAlignmentScore |-> 75]}

DbFail ==
    /\ dbUp
    /\ dbUp' = FALSE
    /\ UNCHANGED <<readVars, configVars, botVars, now, statsReply, tradeVars, procVars>>

DbRecover ==
    /\ ~dbUp
    /\ dbUp' = TRUE
    /\ UNCHANGED <<readVars, configVars, botVars, now, statsReply, tradeVars, procVars>>

EvaluateFault ==
    \E e \in DOMAIN evals, rev \in Revisions, lb \in FaultLeaderboards :
        FirstIdle(evals, e) /\ evaluateMarketState(e, rev, lb, TRUE)

EvaluateCaught == \E e \in DOMAIN evals : evaluateCaught(e)

StartFault ==
    \E s \in DOMAIN scans, mode \in Modes :
        FirstIdle(scans, s) /\ start(s, mode, FaultPredictionLists, TRUE)

ScanFault ==
    \E s \in DOMAIN scans : FirstIdle(scans, s) /\ scan(s, FaultPredictionLists, TRUE)

ExecuteTradeCaught == \E s \in DOMAIN scans : executeTradeCaught(s)

ScanCaught == \E s \in DOMAIN scans : scanCaught(s)

BotUpdateConfig == \E u \in BotUpdates : botUpdateConfig(u)

NextFault ==
    \/ DbFail
    \/ DbRecover
    \/ EvaluateFault
    \/ OpenPosition
    \/ OpenPositionDone
    \/ ManagePositions
    \/ ManagePositionsDone
    \/ EvaluateCaught
    \/ StartFault
    \/ stop(FALSE)
    \/ ScanFault
    \/ ScanLoop
    \/ ScanSignal
    \/ CanExecuteTradeCount
    \/ ExecuteTrade
    \/ ExecuteTradeDone
    \/ ExecuteTradeCaught
    \/ ScanCaught
    \/ BotUpdateConfig

SpecFault == Init /\ [][NextFault]_vars

\* The read side under persistence failures: the leaderboard path with the
\* stats endpoint, the database going down and coming back.
GetPaperStats == getPaperStats

NextRead ==
    \/ DbFail
    \/ DbRecover
    \/ Ingest
    \/ Expire
    \/ GetMarketLeaderboard(TRUE)
    \/ OpenPosition
    \/ OpenPositionDone
    \/ ManagePositions
    \/ ManagePositionsDone
    \/ EvaluateCaught
    \/ GetPaperStats

SpecRead == InitMarket /\ [][NextRead]_vars

\* -------------------------------------------------------- the properties
\* A step that INSERTs a row, and the row it inserts.
Inserts == Len(paper_trades') = Len(paper_trades) + 1

Inserted == paper_trades'[Len(paper_trades')]

\* C1: after any sequence of entry attempts (openPosition under
\* evaluateMarketState, executeTrade behind canExecuteTrade) and exits, run one
\* after the other, paper_trades holds at most one OPEN row for each ticker.
C1_OneOpenPerTicker ==
    \A i, j \in DOMAIN paper_trades :
        (/\ paper_trades[i].status = "OPEN"
         /\ paper_trades[j].status = "OPEN"
         /\ paper_trades[i].ticker = paper_trades[j].ticker) => i = j

\* C1's case: a ticker entered, closed and entered again, and one more entry
\* attempt for it that found the OPEN row.
C1_Witness ==
    \E e \in DOMAIN evals, i, j \in DOMAIN paper_trades :
        /\ evals[e].pc = "open"
        /\ evals[e].existing
        /\ paper_trades[i].ticker = Head(evals[e].lb).ticker
        /\ paper_trades[j].ticker = Head(evals[e].lb).ticker
        /\ paper_trades[i].status = "CLOSED"
        /\ paper_trades[j].status = "OPEN"

\* C2: while the kill switch is ON no entry path inserts a row into
\* paper_trades, however strong the signal.
C2_NoEntryWhileKilled ==
    [][currentConfig.killSwitch => Len(paper_trades') = Len(paper_trades)]_vars

\* C3: in every reachable RuntimeConfig, killSwitch = true implies
\* paperTradingEnabled = false and liveTradingEnabled = false.
C3_KilledForcesFlagsOff ==
    currentConfig.killSwitch =>
        (~currentConfig.paperTradingEnabled /\ ~currentConfig.liveTradingEnabled)

\* C4: once a row is CLOSED it is never written again (status, exit_price,
\* profit, closed_at), never reopened and never deleted, whatever the
\* interleaving of the managePositions calls on its ticker.
C4_ClosedOnce ==
    [][\A i \in DOMAIN paper_trades :
          paper_trades[i].status = "CLOSED" =>
              (i \in DOMAIN paper_trades' /\ paper_trades'[i] = paper_trades[i])]_vars

\* C5: a close decided while pnlPercent >= takeProfitPercent and
\* currentForce < exitThreshold both hold carries the reason TAKE_PROFIT.
C5_TakeProfitBeatsMomentum ==
    \A e \in DOMAIN evals :
        (/\ evals[e].pc = "closed"
         /\ PnlAtLeast(Head(evals[e].lb).latestPrice, evals[e].trade.entry_price,
                       currentConfig.takeProfitPercent)
         /\ Head(evals[e].lb).hijackForce < currentConfig.exitThreshold)
            => evals[e].reason = "TAKE_PROFIT"

\* C6: the exit rules are applied in the order take-profit, trailing stop,
\* stop-loss, momentum-died; in particular a close decided while
\* pnlPercent <= stopLossPercent and currentForce < exitThreshold both hold
\* carries the reason STOP_LOSS.
C6_StopLossBeatsMomentum ==
    \A e \in DOMAIN evals :
        (/\ evals[e].pc = "closed"
         /\ PnlAtMost(Head(evals[e].lb).latestPrice, evals[e].trade.entry_price,
                      currentConfig.stopLossPercent)
         /\ Head(evals[e].lb).hijackForce < currentConfig.exitThreshold)
            => evals[e].reason = "STOP_LOSS"

\* C7: the quantity stored at entry is tradeSizeUsd / entryPrice, no later step
\* changes it (nor the entry price), and the profit stored by a close is
\* (exitPrice - entryPrice) * quantity.
C7_QuantityAndProfit ==
    [][/\ Inserts =>
            FracEq(Inserted.quantity, Frac(getTradeSizeUsd, Inserted.entry_price))
       /\ \A i \in DOMAIN paper_trades :
            /\ paper_trades'[i].quantity = paper_trades[i].quantity
            /\ paper_trades'[i].entry_price = paper_trades[i].entry_price
            /\ (paper_trades[i].status = "OPEN" /\ paper_trades'[i].status = "CLOSED")
                  => FracEq(paper_trades'[i].profit,
                            ProfitUsd(paper_trades[i].entry_price,
                                      paper_trades'[i].exit_price,
                                      paper_trades[i].quantity))]_vars

\* C8: after an entry for a ticker at time t no entry for that ticker is made
\* before t + the configured cooldown minutes, closed in the meantime or not.
C8_CooldownBlocksReentry ==
    [][Inserts =>
          \A i \in DOMAIN paper_trades :
              paper_trades[i].ticker = Inserted.ticker =>
                  now >= paper_trades[i].opened_at + botConfig.cooldownMinutes]_vars

\* C9: an entry is made only while the count of OPEN rows is below the
\* configured maximum, whichever entry path makes it.
C9_EntryBelowMaxOpen ==
    [][Inserts => OpenCount < getMaxOpenPositions]_vars

\* C10: activateKillSwitch leaves killSwitch = true and both trading flags
\* false; deactivateKillSwitch right after it leaves killSwitch = false,
\* paperTradingEnabled = true and liveTradingEnabled = false, whatever the flags
\* were before the activation.
C10_KillSwitchTransitions ==
    /\ configLog[2].op = "activateKillSwitch" =>
            /\ currentConfig.killSwitch
            /\ ~currentConfig.paperTradingEnabled
            /\ ~currentConfig.liveTradingEnabled
    /\ (configLog[1].op = "activateKillSwitch"
            /\ configLog[2].op = "deactivateKillSwitch") =>
            /\ ~currentConfig.killSwitch
            /\ currentConfig.paperTradingEnabled
            /\ ~currentConfig.liveTradingEnabled

\* C10's case: the kill switch activated on a config with live trading on and
\* paper trading off, then deactivated.
C10_Witness ==
    /\ configLog[1].op = "activateKillSwitch"
    /\ configLog[1].before.liveTradingEnabled
    /\ ~configLog[1].before.paperTradingEnabled
    /\ configLog[2].op = "deactivateKillSwitch"

\* C11: resetToDefaults leaves every RuntimeConfig field at its DEFAULT_CONFIG
\* value, whatever updateConfig and kill-switch operations came before it, and
\* no operation alters the DEFAULT_CONFIG object.
C11_ResetRestoresDefaults ==
    /\ configLog[2].op = "resetToDefaults" => currentConfig = DEFAULT_CONFIG
    /\ defaultConfig = DEFAULT_CONFIG

\* C11's case: the kill switch activated on the default config, then a reset
\* that found the kill switch on.
C11_Witness ==
    /\ configLog[1].op = "activateKillSwitch"
    /\ configLog[1].before = DEFAULT_CONFIG
    /\ configLog[2].op = "resetToDefaults"
    /\ configLog[2].before.killSwitch
    /\ currentConfig = DEFAULT_CONFIG

\* C19: no reachable RuntimeConfig holds an out-of-range value: an update
\* carrying one is rejected or clamped, so maxOpenPositions >= 0 always.
C19_ConfigInRange ==
    currentConfig.maxOpenPositions >= 0

\* The sources that contributed a vote to the last analysis: the ML predictor
\* always, an auxiliary source when its lookup answered, options flow for
\* BTC and ETH only.
Contributed ==
    1 + (IF analysis.readings.fg.ok THEN 1 ELSE 0)
      + (IF analysis.readings.social.ok THEN 1 ELSE 0)
      + (IF analysis.readings.options.ok /\ analysis.prediction.ticker \in {"BTC", "ETH"}
         THEN 1 ELSE 0)
      + (IF analysis.readings.onchain.ok THEN 1 ELSE 0)

\* C12: the alignmentScore of every signal generateSignal returns is an integer
\* in 0..100, equal to max(bullishWeight, bearishWeight) / totalWeight * 100
\* rounded to the nearest integer (halves up), and is 100 when all contributing
\* sources vote BULLISH or all vote BEARISH.
C12_AlignmentScore ==
    (analysis.done /\ analysis.signal # NoSignal) =>
        LET signals == SignalsOf(analysis.prediction, analysis.readings)
            total == WeightOf(signals, "ANY")
            dominant == Max(WeightOf(signals, "BULLISH"), WeightOf(signals, "BEARISH"))
            score == analysis.signal.alignmentScore
        IN /\ score \in 0..100
           /\ (2 * score - 1) * total <= 200 * dominant
           /\ 200 * dominant < (2 * score + 1) * total
           /\ (\/ \A i \in DOMAIN signals : signals[i].signal = "BULLISH"
               \/ \A i \in DOMAIN signals : signals[i].signal = "BEARISH")
                  => score = 100

\* C12's case: a signal whose exact ratio falls on a half (30 of 80 is 37.5).
C12_Witness ==
    /\ analysis.done
    /\ analysis.signal # NoSignal
    /\ analysis.signal.alignmentScore = 38

\* C13: generateSignal returns null whenever fewer than 3 sources contributed
\* a vote, whatever those votes are.
C13_NullBelowThreeSources ==
    (analysis.done /\ Contributed < 3) => analysis.signal = NoSignal

\* C13's case: two sources contributed, both voting BULLISH at full strength.
C13_Witness ==
    /\ analysis.done
    /\ Contributed = 2
    /\ analysis.prediction.direction = "UP"
    /\ analysis.prediction.confidence = 70
    /\ analysis.readings.social = [ok |-> TRUE, value |-> 2]
    /\ analysis.signal = NoSignal

\* The prices of one ticker in the rows a leaderboard request read, and the
\* reading the request returned for the ticker.
PriceData(ticker) ==
    LET history == History(lastLeaderboard.rows, ticker)
    IN [i \in DOMAIN history |-> history[i].sentiment_score]

LatestVolume(ticker) ==
    LET history == History(lastLeaderboard.rows, ticker)
    IN history[Len(history)].volume

HasForce(ticker, force) ==
    \E j \in DOMAIN lastLeaderboard.readings :
        /\ lastLeaderboard.readings[j].ticker = ticker
        /\ lastLeaderboard.readings[j].hijackForce = force

SecondDifferences(data) ==
    /\ Len(calculateAcceleration(data)) = Len(data) - 2
    /\ \A i \in 1..(Len(data) - 2) :
          calculateAcceleration(data)[i] = data[i + 2] - 2 * data[i + 1] + data[i]

\* C14 as stated: for every series of n >= 3 values calculateAcceleration returns
\* the n-2 second differences in order, and the hijack force of the ticker is
\* |last acceleration| * log10(latest volume), whatever the volume.
C14_ForceIsAccelTimesLog ==
    \A t \in Tickers :
        LET data == PriceData(t)
        IN Len(data) >= 3 =>
            /\ SecondDifferences(data)
            /\ HasForce(t, Abs(calculateAcceleration(data)[Len(data) - 2])
                              * Log10Milli(LatestVolume(t), 1))

\* C14, amended: for every series of n >= 3 values calculateAcceleration returns
\* the n-2 second differences in order ([1,2,4,7,11] gives [1,1,1]), and the
\* hijack force is |last acceleration| * log10(latest volume) when the latest
\* volume exceeds 1 and 0 otherwise (3 for that series with volume 1000).
C14_AccelerationAndForce ==
    \A t \in Tickers :
        LET data == PriceData(t)
        IN Len(data) >= 3 =>
            /\ SecondDifferences(data)
            /\ HasForce(t, Abs(calculateAcceleration(data)[Len(data) - 2])
                              * (IF LatestVolume(t) > 10
                                 THEN Log10Milli(LatestVolume(t), 1) ELSE 0))
            /\ (data = <<1, 2, 4, 7, 11>> /\ LatestVolume(t) = 10000) =>
                   /\ calculateAcceleration(data) = <<1, 1, 1>>
                   /\ HasForce(t, 3000)

\* C14's case: the leaderboard computed on the series 1, 2, 4, 7, 11 at volume 1000.
C14_Witness ==
    /\ lastLeaderboard.rows = QuadraticFeed
    /\ lastLeaderboard.readings = <<[ticker |-> "BTC", hijackForce |-> 3000,
                                     latestPrice |-> 11]>>

\* C15: a ticker with fewer than 3 rows in the window gets no reading on the
\* leaderboard (and calculateMultiForce reports force 0, trend FLAT, on its
\* rows), and the leaderboard is the one the other tickers' rows give alone.
C15_ShortHistoryNoReading ==
    \A t \in Tickers :
        LET rows == lastLeaderboard.rows
            history == History(rows, t)
        IN Len(history) < 3 =>
            /\ \A j \in DOMAIN lastLeaderboard.readings :
                  lastLeaderboard.readings[j].ticker # t
            /\ calculateMultiForce(history) = [force |-> 0, trend |-> "FLAT"]
            /\ lastLeaderboard.readings =
                  LeaderboardOf(SelectSeq(rows, LAMBDA row : row.ticker # t))

\* C15's case: a window with three BTC rows between two SOL rows; BTC alone is read.
C15_Witness ==
    /\ lastLeaderboard.rows = SubSeq(TwoTickerFeed, 1, 5)
    /\ lastLeaderboard.readings = <<[ticker |-> "BTC", hijackForce |-> 3000,
                                     latestPrice |-> 4]>>

RunUpReading == [ticker |-> "BTC", hijackForce |-> 7431, latestPrice |-> 116]

\* C16: after BTC received (100,50), (101,60), (103,80), (108,150), (116,300),
\* with the kill switch off, no OPEN BTC position (and a narrative that does
\* not block), the leaderboard cycle reads a force above the entry threshold
\* 0.08 and decides to enter, and the entry leaves exactly one OPEN BTC row,
\* with entry price 116 and quantity tradeSizeUsd / 116.
C16_RunUpOpensOnePosition ==
    [][\A e \in DOMAIN evals :
          /\ (/\ evals[e].pc = "idle"
              /\ evals'[e].pc # "idle"
              /\ sentiment_metrics = RunUpFeed
              /\ ~currentConfig.killSwitch
              /\ OpenRows("BTC") = {}
              /\ evals'[e].narrativeScore >= 0)
                 => /\ evals'[e].lb = <<RunUpReading>>
                    /\ RunUpReading.hijackForce > DEFAULT_CONFIG.entryThreshold
                    /\ evals'[e].pc = "open"
          /\ (/\ evals[e].pc = "open"
              /\ evals'[e].pc # "open"
              /\ evals[e].lb = <<RunUpReading>>
              /\ ~evals[e].existing)
                 => /\ Inserts
                    /\ Inserted.ticker = "BTC"
                    /\ Inserted.status = "OPEN"
                    /\ Inserted.entry_price = 116
                    /\ FracEq(Inserted.quantity, Frac(getTradeSizeUsd, 116))
                    /\ Cardinality({i \in DOMAIN paper_trades' :
                                       /\ paper_trades'[i].ticker = "BTC"
                                       /\ paper_trades'[i].status = "OPEN"}) = 1]_vars

\* C20: once updateConfig has changed the entry threshold, the position manager
\* enters only on a force above the new value.
C20_UpdatedThresholdDecides ==
    [][\A e \in DOMAIN evals :
          (/\ evals[e].pc = "open"
           /\ evals'[e].pc = "opened"
           /\ getEntryThreshold # DEFAULT_CONFIG.entryThreshold)
              => Head(evals[e].lb).hijackForce > getEntryThreshold]_vars

\* C17: with the trailing stop enabled, when the exit check evaluates an OPEN
\* position whose profit is at or above trailingActivation, the take-profit
\* (and the momentum exit) not matching, and the price stands
\* trailingStopPercent or more below the highest price seen for the position,
\* the check closes it with reason TRAILING_STOP and the mark is cleared.
C17_TrailingStopCloses ==
    [][\A e \in DOMAIN evals :
          LET trade == evals[e].trade
              asset == Head(evals[e].lb)
              mark == PeakSeen(trade, asset.latestPrice)
          IN (/\ evals[e].pc = "manage"
              /\ evals'[e] # evals[e]
              /\ trade # NoRow
              /\ currentConfig.trailingStopEnabled
              /\ PnlAtLeast(asset.latestPrice, trade.entry_price,
                            currentConfig.trailingActivation)
              /\ ~PnlAtLeast(asset.latestPrice, trade.entry_price,
                             currentConfig.takeProfitPercent)
              /\ asset.hijackForce >= currentConfig.exitThreshold
              /\ (mark - asset.latestPrice) * 1000
                    >= currentConfig.trailingStopPercent * mark)
                 => /\ evals'[e].pc = "closed"
                    /\ evals'[e].reason = "TRAILING_STOP"
                    /\ highWaterMark'[asset.ticker] = 0]_vars

\* C21: updateConfig(u) is a partial merge: right after it every field present
\* in u has u's value and every other RuntimeConfig field has the value it had
\* before the call.
C21_PartialMerge ==
    configLog[2].op = "updateConfig" =>
        /\ DOMAIN currentConfig = ConfigFields
        /\ \A f \in ConfigFields :
              currentConfig[f] = IF f \in DOMAIN configLog[2].updates
                                 THEN configLog[2].updates[f]
                                 ELSE configLog[2].before[f]

\* C21's case: the trade size updated on a config whose kill switch was on: the
\* kill switch and the flags stay as the activation left them.
C21_Witness ==
    /\ configLog[1].op = "activateKillSwitch"
    /\ configLog[2].op = "updateConfig"
    /\ configLog[2].updates = [tradeSizeUsd |-> 500]
    /\ currentConfig.tradeSizeUsd = 500
    /\ currentConfig.killSwitch
    /\ ~currentConfig.paperTradingEnabled

\* C22: with entry evaluations for one ticker overlapping and interleaving at
\* their awaited queries, each ticker still has at most one OPEN row.
C22_OneOpenUnderOverlap == \A t \in Tickers : Cardinality(OpenRows(t)) <= 1

\* C23: within one evaluateMarketState cycle the row openPosition inserted for
\* a ticker is not the row the managePositions call of that cycle closes.
C23_NoExitInEntryCycle ==
    \A e \in DOMAIN evals :
        evals[e].pc = "closed" => evals[e].trade.id # evals[e].created

\* C23's case: the exit check of a cycle has read the row the cycle inserted.
C23_Witness ==
    \E e \in DOMAIN evals :
        /\ evals[e].pc = "manage"
        /\ evals[e].created # 0
        /\ evals[e].trade.id = evals[e].created

\* C24 (its first part): a leaderboard cycle exit-evaluates every OPEN
\* position, so that each is closed once its force stays low: every ticker
\* with an OPEN row is among the assets the cycle hands to the position
\* manager, a ticker whose window yields no reading included.
C24_EveryOpenPositionEvaluated ==
    [][lastLeaderboard' # lastLeaderboard =>
          \A t \in Tickers :
              OpenRows(t) # {} =>
                  \E j \in DOMAIN lastLeaderboard'.readings :
                      lastLeaderboard'.readings[j].ticker = t]_vars

\* C25: within one cycle, a failure (a query or a lookup that throws) on one
\* ticker does not keep the remaining tickers of that cycle from being
\* evaluated, in AutoTraderService.scan and in PaperService.evaluateMarketState:
\* a call whose catch has run does not end while a ticker of the cycle remains.
C25_FailureSparesOtherTickers ==
    [][/\ \A s \in DOMAIN scans :
            (scans[s].pc \in {"scanError", "tradeError"} /\ scans'[s].pc = "idle")
                => SkipCooldown(Tail(scans[s].preds)) = <<>>
       /\ \A e \in DOMAIN evals :
            (evals[e].pc \in {"queryFailed", "insertFailed"} /\ evals'[e] # evals[e])
                => IF Tail(evals[e].lb) = <<>> THEN evals'[e].pc = "idle"
                   ELSE evals'[e].lb = Tail(evals[e].lb)]_vars

\* C26: a position INSERT that fails during an entry leaves the entry not
\* executed, on both paths. The failing step and the catch that follows it add
\* no row, set no cooldown and leave tradesExecuted and lastTrade as they were;
\* the call never reaches the point after the INSERT where the ENTRY archive
\* event and the notification are emitted; so a later cycle finds the state it
\* would have found without the attempt, and enters if its conditions hold.
C26_FailedInsertNotExecuted ==
    [][/\ \A s \in DOMAIN scans :
            /\ (scans[s].pc # "tradeError" /\ scans'[s].pc = "tradeError")
                  => /\ scans[s].pc = "existing"
                     /\ UNCHANGED <<paper_trades, tradeCooldowns, botStats>>
            /\ (scans[s].pc = "tradeError" /\ scans'[s] # scans[s])
                  => /\ scans'[s].pc = "next"
                     /\ scans'[s].preds = Tail(scans[s].preds)
                     /\ UNCHANGED <<paper_trades, tradeCooldowns, botStats>>
       /\ \A e \in DOMAIN evals :
            /\ (evals[e].pc # "insertFailed" /\ evals'[e].pc = "insertFailed")
                  => /\ evals[e].pc = "open"
                     /\ UNCHANGED <<paper_trades, tradeCooldowns, botStats>>
            /\ (evals[e].pc = "insertFailed" /\ evals'[e] # evals[e])
                  => /\ evals'[e].pc \notin {"opened", "insertFailed"}
                     /\ UNCHANGED <<paper_trades, tradeCooldowns, botStats>>]_vars

\* executeTrade's INSERT has just been rejected on the first entry of a bot:
\* no row, no cooldown, no trade counted.
C26_Witness ==
    \E s \in DOMAIN scans :
        /\ scans[s].pc = "tradeError"
        /\ scans[s].signal.price # 0
        /\ ~dbUp
        /\ paper_trades = <<>>
        /\ tradeCooldowns[scans[s].signal.ticker] = 0
        /\ botStats.tradesExecuted = 0 /\ botStats.lastTrade = 0

\* C27: AutoTraderService.scan executes a trade only for a signal whose ML
\* confidence is >= minMLConfidence and whose alignmentScore is >=
\* minAlignmentScore, the thresholds being those of the bot configuration in
\* force during that scan: minMLConfidence as scan read it when it fetched the
\* predictions, minAlignmentScore as it read it when it tested the signal.
\* updateConfig may run between any two awaits of the scan.
C27_TradeClearsThresholds ==
    [][\A s \in DOMAIN scans :
        /\ (scans[s].pc = "idle" /\ scans'[s].pc = "predict")
            => scans'[s].minMLConfidence = botConfig'.minMLConfidence
        /\ (scans[s].pc = "signal" /\ scans'[s].pc \in {"count", "scanError"})
            => scans'[s].minAlignmentScore = botConfig.minAlignmentScore
        /\ (scans[s].pc \notin {"idle", "signal"} /\ scans'[s].pc # "idle")
            => scans'[s].minMLConfidence = scans[s].minMLConfidence
        /\ (scans[s].pc \in {"count", "existing"} /\ scans'[s].pc \in {"existing", "executed"})
            => scans'[s].minAlignmentScore = scans[s].minAlignmentScore
        /\ (scans[s].pc = "existing" /\ scans'[s].pc \in {"executed", "tradeError"})
            => LET sc == scans[s]
               IN /\ sc.signal.ticker = Head(sc.preds).ticker
                  /\ sc.signal.confidence = Head(sc.preds).confidence
                  /\ sc.minMLConfidence \in {45, 55, 70}
                  /\ sc.minAlignmentScore \in {40, 60, 75}
                  /\ sc.signal.confidence >= sc.minMLConfidence
                  /\ sc.signal.alignmentScore >= sc.minAlignmentScore]_vars

\* A trade executed under BALANCED (55 / 60) after updateConfig has raised the
\* thresholds in the middle of the scan.
C27_Witness ==
    \E s \in DOMAIN scans :
        /\ scans[s].pc = "executed"
        /\ scans[s].minMLConfidence = 55
        /\ scans[s].minAlignmentScore = 60
        /\ botConfig.minMLConfidence = 70
        /\ botConfig.minAlignmentScore = 75
        /\ scans[s].signal.confidence = 70

\* C29: after AutoTraderService.stop() has returned and until start() is called
\* again, the AutoTrader inserts no position and sets no cooldown, a scan that
\* was suspended at an await when stop() was called included.
C29_NoTradeAfterStop ==
    [][((\E s \in DOMAIN scans : scans[s].pc = "existing" /\ scans'[s].pc = "executed")
            \/ tradeCooldowns' # tradeCooldowns)
          => botStats.isRunning]_vars

ZeroStats == [totalTrades |-> 0, wins |-> 0, losses |-> 0, openPositions |-> 0]

\* C28: while the persistence layer fails, the read-side aggregates degrade
\* and no exception reaches the caller: getMarketLeaderboard returns an empty
\* list and the stats request gets a zero result from PaperService.getStats.
C28_ReadSideDegrades ==
    [][~dbUp =>
          /\ (lastLeaderboard' # lastLeaderboard => lastLeaderboard' = NoLeaderboard)
          /\ (statsReply' # statsReply
                  => statsReply' = [status |-> 200, data |-> ZeroStats])]_vars


====
